---------------------------- MODULE Spec2Model ----------------------------
(***************************************************************************)
(* A model of the Etherscan API client: the JavaScript facade              *)
(* (src/src/EtherscanApi.js) and the TypeScript facade (src/src/index.ts). *)
(* A client is constructed once; its methods build a parameter mapping,    *)
(* hand it to the request builder, and post-process the asynchronous       *)
(* result.  The remote API answers each request in flight with a result or *)
(* an error, in any order.                                                 *)
(*                                                                         *)
(* JavaScript values are tagged tuples: <<"undefined">>, <<"string", s>>,  *)
(* <<"number", n>>, <<"array", seq>>, <<"object", rec>>, <<"NaN">>,        *)
(* <<"error", message>>.                                                   *)
(* An object literal is a sequence of <<key, value>> pairs in insertion    *)
(* order.                                                                  *)
(***************************************************************************)
EXTENDS Integers, Sequences, FiniteSets, TLC

VARIABLES
    impl,       \* which facade the client is: "js" (EtherscanApi.js) or "ts" (index.ts);
                \* "none" before the constructor has run
    ctorArgs,   \* the arguments the constructor was called with: <<token, networkName>>
    token,      \* this.token
    network,    \* this.network
    host,       \* this.host
    inflight,   \* the requests issued and not yet answered, oldest first
    ev,         \* the latest event the caller observed: a method returned, or a request settled
    nCalls,     \* the number of facade calls made so far
    nRequests   \* the number of requests handed to the request builder so far

vars == <<impl, ctorArgs, token, network, host, inflight, ev, nCalls, nRequests>>

clientState == <<impl, ctorArgs, token, network, host>>

---------------------------------------------------------------------------
(* Bounds of the model *)

\* the most facade calls made on the client in one run
MaxCalls == 2

\* the most requests in flight at one time
MaxInFlight == 1

\* the same two bounds for the calls made concurrently
MaxConcurrentCalls == 2

MaxConcurrent == 2

---------------------------------------------------------------------------
(* JavaScript values *)

Undefined == <<"undefined">>

NaN == <<"NaN">>

Str(s) == <<"string", s>>

Num(n) == <<"number", n>>

Arr(seq) == <<"array", seq>>

Obj(rec) == <<"object", rec>>

\* an Error carrying a message
Err(message) == <<"error", message>>

IsUndefined(v) == v[1] = "undefined"

\* the i-th positional argument of a call: undefined when the caller omitted it
Arg(args, i) == IF i <= Len(args) THEN args[i] ELSE Undefined

\* a parameter default (x = d in a parameter list): taken when the argument is undefined
Default(v, d) == IF IsUndefined(v) THEN d ELSE v

---------------------------------------------------------------------------
(* Strings *)

LowerCase == "abcdefghijklmnopqrstuvwxyz"

UpperCase == "ABCDEFGHIJKLMNOPQRSTUVWXYZ"

HexDigits == "0123456789abcdef"

HexDigitsUpper == "0123456789ABCDEF"

CharAt(s, i) == SubSeq(s, i, i)

\* the 1-based position of character c in s, 0 when it is not there
RECURSIVE IndexOf(_, _, _)
IndexOf(s, c, i) ==
    IF i > Len(s) THEN 0
    ELSE IF CharAt(s, i) = c THEN i
    ELSE IndexOf(s, c, i + 1)

toUpperCaseChar(c) ==
    LET i == IndexOf(LowerCase, c, 1)
    IN  IF i = 0 THEN c ELSE CharAt(UpperCase, i)

\* String.prototype.toUpperCase
RECURSIVE toUpperCase(_)
toUpperCase(s) ==
    IF Len(s) = 0 THEN ""
    ELSE toUpperCaseChar(CharAt(s, 1)) \o toUpperCase(SubSeq(s, 2, Len(s)))

\* Array.prototype.join(sep) over an array of strings
RECURSIVE join(_, _)
join(strs, sep) ==
    IF Len(strs) = 0 THEN ""
    ELSE IF Len(strs) = 1 THEN strs[1]
    ELSE strs[1] \o sep \o join(Tail(strs), sep)

\* Number.prototype.toString(radix) of a non-negative integer, radix 10 or 16
RECURSIVE numberToString(_, _)
numberToString(n, radix) ==
    IF n < radix THEN CharAt(HexDigits, n + 1)
    ELSE numberToString(n \div radix, radix) \o CharAt(HexDigits, (n % radix) + 1)

\* the value of a hexadecimal digit, -1 when c is none
hexValue(c) ==
    LET i == IndexOf(HexDigits, c, 1)
        j == IndexOf(HexDigitsUpper, c, 1)
    IN  IF i > 0 THEN i - 1 ELSE IF j > 0 THEN j - 1 ELSE -1

\* the number the leading digits of s (in the radix) denote, from accumulator acc
RECURSIVE parseDigits(_, _, _)
parseDigits(s, radix, acc) ==
    IF Len(s) = 0 THEN acc
    ELSE LET d == hexValue(CharAt(s, 1))
         IN  IF d < 0 \/ d >= radix THEN acc
             ELSE parseDigits(SubSeq(s, 2, Len(s)), radix, acc * radix + d)

hasHexPrefix(s) == Len(s) >= 2 /\ SubSeq(s, 1, 2) \in {"0x", "0X"}

\* parseInt(s, 16): an optional 0x, then the leading hexadecimal digits; NaN without any
parseInt16(s) ==
    LET body == IF hasHexPrefix(s) THEN SubSeq(s, 3, Len(s)) ELSE s
        d    == IF Len(body) = 0 THEN -1 ELSE hexValue(CharAt(body, 1))
    IN  IF d < 0 THEN NaN ELSE Num(parseDigits(body, 16, 0))

---------------------------------------------------------------------------
(* The static tables: constants/networks, constants/modules,               *)
(* constants/actions, constants/units                                      *)

NETWORKS ==
    [MAIN    |-> "https://api.etherscan.io/api",
     ROPSTEN |-> "https://api-ropsten.etherscan.io/api",
     KOVAN   |-> "https://api-kovan.etherscan.io/api",
     RINKEBY |-> "https://api-rinkeby.etherscan.io/api"]

MODULES ==
    [ACCOUNT     |-> "account",
     CONTRACT    |-> "contract",
     TRANSACTION |-> "transaction",
     BLOCK       |-> "block",
     LOGS        |-> "logs",
     PROXY       |-> "proxy",
     STATS       |-> "stats"]

\* the action constants under the names EtherscanApi.js uses
ACTIONS_JS ==
    [GET_BALANCE                      |-> "balance",
     GET_BALANCE_MULTI                |-> "balancemulti",
     GET_TRANSACTIONS_LIST            |-> "txlist",
     GET_TRANSACTIONS_LIST_INTERNAL   |-> "txlistinternal",
     GET_MINED_BLOCKS                 |-> "getminedblocks",
     GET_ABI                          |-> "getabi",
     GET_CONTRACT_STATUS              |-> "getstatus",
     GET_TRANSACTION_STATUS           |-> "gettxreceiptstatus",
     GET_BLOCK_REWARD                 |-> "getblockreward",
     GET_LOGS                         |-> "getLogs",
     GET_RECENT_BLOCK_NUMBER          |-> "eth_blockNumber",
     GET_BLOCK_BY_NUMBER              |-> "eth_getBlockByNumber",
     GET_UNCLE_BLOCK_NUMBER_AND_INDEX |-> "eth_getUncleByBlockNumberAndIndex",
     GET_BLOCK_TX_COUNT_BY_NUMBER     |-> "eth_getBlockTransactionCountByNumber",
     GET_TRANSACTION_BY_HASH          |-> "eth_getTransactionByHash",
     GET_TX_BY_BLOCK_NUMBER_AND_INDEX |-> "eth_getTransactionByBlockNumberAndIndex",
     GET_TRANSACTION_COUNT            |-> "eth_getTransactionCount",
     SEND_RAW_TRANSACTION             |-> "eth_sendRawTransaction",
     GET_TRANSACTION_RECEIPT          |-> "eth_getTransactionReceipt",
     CALL                             |-> "eth_call",
     GET_CODE                         |-> "eth_getCode",
     GET_STORAGE_AT                   |-> "eth_getStorageAt",
     GET_GAS_PRICE                    |-> "eth_gasPrice",
     ESTIMATE_GAS                     |-> "eth_estimateGas",
     GET_TOKEN_BY_CONTRACT            |-> "tokensupply",
     GET_TOKEN_BALANCE_BY_CONTRACT    |-> "tokenbalance",
     GET_TOTAL_ETHER_SUPPLY           |-> "ethsupply",
     GET_LAST_ETHER_PRICE             |-> "ethprice"]

\* the action constants under the names index.ts uses
ACTIONS_TS ==
    [BALANCE                    |-> "balance",
     BALANCE_MULTI              |-> "balancemulti",
     TRANSACTIONS_LIST          |-> "txlist",
     TRANSACTIONS_LIST_INTERNAL |-> "txlistinternal",
     GET_ABI                    |-> "getabi",
     GET_CONTRACT_STATUS        |-> "getstatus",
     GET_TRANSACTION_STATUS     |-> "gettxreceiptstatus"]

\* unit name -> its power-of-ten exponent relative to wei
UNITS ==
    [wei    |-> 0,
     kwei   |-> 3,
     mwei   |-> 6,
     gwei   |-> 9,
     szabo  |-> 12,
     finney |-> 15,
     ether  |-> 18,
     kether |-> 21,
     mether |-> 24,
     gether |-> 27,
     tether |-> 30]

\* the property names every ordinary object inherits from Object.prototype
ObjectPrototypeKeys ==
    {"constructor", "hasOwnProperty", "isPrototypeOf", "propertyIsEnumerable",
     "toLocaleString", "toString", "valueOf", "__proto__",
     "__defineGetter__", "__defineSetter__", "__lookupGetter__", "__lookupSetter__"}

\* the JavaScript operator (key in table): own and inherited property names
In(key, table) == key \in DOMAIN table \/ key \in ObjectPrototypeKeys

\* the property read table[key]: an own entry, or else what the prototype holds
Member(table, key) ==
    IF key \in DOMAIN table THEN table[key] ELSE "[inherited " \o key \o "]"

---------------------------------------------------------------------------
(* Decimal numerals as strings, and the unit converter utils/etherConvert  *)

RECURSIVE zeros(_)
zeros(n) == IF n <= 0 THEN "" ELSE "0" \o zeros(n - 1)

RECURSIVE stripLeadingZeros(_)
stripLeadingZeros(s) ==
    IF Len(s) > 1 /\ CharAt(s, 1) = "0" THEN stripLeadingZeros(SubSeq(s, 2, Len(s)))
    ELSE s

RECURSIVE stripTrailingZeros(_)
stripTrailingZeros(s) ==
    IF Len(s) > 0 /\ CharAt(s, Len(s)) = "0" THEN stripTrailingZeros(SubSeq(s, 1, Len(s) - 1))
    ELSE s

integerPart(s) ==
    LET p == IndexOf(s, ".", 1)
    IN  IF p = 0 THEN s ELSE SubSeq(s, 1, p - 1)

fractionPart(s) ==
    LET p == IndexOf(s, ".", 1)
    IN  IF p = 0 THEN "" ELSE SubSeq(s, p + 1, Len(s))

\* a decimal numeral rendered plainly: no leading zeros, no trailing fraction zeros
plainDecimal(int, frac) ==
    LET i == stripLeadingZeros(IF Len(int) = 0 THEN "0" ELSE int)
        f == stripTrailingZeros(frac)
    IN  IF Len(f) = 0 THEN i ELSE i \o "." \o f

\* the numeral s times 10^k, exactly
scaleByPowerOfTen(s, k) ==
    LET int  == integerPart(s)
        frac == fractionPart(s)
    IN  IF k >= 0
        THEN LET f == frac \o zeros(k - Len(frac))
             IN  plainDecimal(int \o SubSeq(f, 1, k), SubSeq(f, k + 1, Len(f)))
        ELSE LET i == zeros((-k) - Len(int)) \o int
             IN  plainDecimal(SubSeq(i, 1, Len(i) + k), SubSeq(i, Len(i) + k + 1, Len(i)) \o frac)

\* what a callback does: it returns a value or throws an error
Return(v) == <<"return", v>>

Throw(e) == <<"throw", e>>

\* etherConvert(value, from, to): value scaled by 10^(UNITS[from] - UNITS[to]);
\* strict about its units
etherConvert(value, from, to) ==
    IF from \notin DOMAIN UNITS \/ to \notin DOMAIN UNITS
    THEN Throw(Err("InvalidUnit"))
    ELSE Return(Str(scaleByPowerOfTen(value[2], UNITS[from] - UNITS[to])))

\* new BigNumber(s).toFixed(): s is a decimal numeral, or hexadecimal after 0x
bigNumberToFixed(s) ==
    IF hasHexPrefix(s)
    THEN numberToString(parseDigits(SubSeq(s, 3, Len(s)), 16, 0), 10)
    ELSE plainDecimal(integerPart(s), fractionPart(s))

\* utils/getHex: a number as 0x-prefixed hexadecimal
getHex(n) == Str("0x" \o numberToString(n[2], 16))

\* JSON.parse on the texts the remote sends for a contract ABI
JSONparse(text) ==
    CASE text = "[]" -> Return(Arr(<<>>))
      [] text = "[{\"type\":\"function\"}]" -> Return(Arr(<<Obj([type |-> "function"])>>))
      [] OTHER -> Throw(Err("SyntaxError"))

---------------------------------------------------------------------------
(* Object literals and the request builder utils/createRequest             *)

objectHas(obj, key) == \E i \in 1..Len(obj) : obj[i][1] = key

\* obj[key]: undefined when obj has no such key
objectGet(obj, key) ==
    IF objectHas(obj, key)
    THEN obj[CHOOSE i \in 1..Len(obj) : obj[i][1] = key][2]
    ELSE Undefined

\* { ...obj, key: value }: a key obj has keeps its place and takes the new value
objectSet(obj, key, value) ==
    IF objectHas(obj, key)
    THEN [i \in 1..Len(obj) |-> IF obj[i][1] = key THEN <<key, value>> ELSE obj[i]]
    ELSE Append(obj, <<key, value>>)

objectKeys(obj) == {obj[i][1] : i \in 1..Len(obj)}

\* String(v) of a parameter value
toText(v) ==
    CASE v[1] = "string" -> v[2]
      [] v[1] = "number" -> numberToString(v[2], 10)
      [] OTHER -> v[1]

isDefinedEntry(entry) == ~IsUndefined(entry[2])

\* the query string: the entries whose value is not undefined, as <<key, text>>
queryString(params) ==
    LET kept == SelectSeq(params, isDefinedEntry)
    IN  [i \in 1..Len(kept) |-> <<kept[i][1], toText(kept[i][2])>>]

\* createRequest(host, params): the one HTTP GET the request builder sends
createRequest(h, params) ==
    [host |-> h, params |-> params, query |-> queryString(params)]

---------------------------------------------------------------------------
(* The client: constructor and _createRequest                              *)

\* the constructor comparing the network name as given, without toUpperCase
constructor_caseSensitive(tokenArg, networkArg) ==
    LET networkName == Default(networkArg, Str("MAIN"))
        netName     == networkName[2]
        net         == IF In(netName, NETWORKS) THEN netName ELSE "MAIN"
    IN  [token   |-> Default(tokenArg, Str("")),
         network |-> net,
         host    |-> Member(NETWORKS, net)]

\* constructor(token = '', networkName = 'MAIN') of EtherscanApi.js: the fields it sets
constructor(tokenArg, networkArg) ==
    LET networkName == Default(networkArg, Str("MAIN"))
        netName     == toUpperCase(networkName[2])
        net         == IF In(netName, NETWORKS) THEN netName ELSE "MAIN"
    IN  [token   |-> Default(tokenArg, Str("")),
         network |-> net,
         host    |-> Member(NETWORKS, net)]

\* constructor(token = 'YourApiKeyToken', network = 'MAIN') of index.ts
ts_constructor(tokenArg, networkArg) ==
    LET networkName == Default(networkArg, Str("MAIN"))
        netName     == toUpperCase(networkName[2])
        net         == IF In(netName, NETWORKS) THEN netName ELSE "MAIN"
    IN  [token   |-> Default(tokenArg, Str("YourApiKeyToken")),
         network |-> net,
         host    |-> Member(NETWORKS, net)]

isNotApikey(entry) == entry[1] # "apikey"

\* _createRequest spreading the parameters after the token: { apikey: this.token, ...params }
_createRequest_paramsLast(params) ==
    <<createRequest(host,
        <<<<"apikey", IF objectHas(params, "apikey") THEN objectGet(params, "apikey") ELSE token>>>>
            \o SelectSeq(params, isNotApikey))>>

\* _createRequest handing the parameters to the request builder a second time
_createRequest_twice(params) ==
    <<createRequest(host, objectSet(params, "apikey", token)),
      createRequest(host, objectSet(params, "apikey", token))>>

\* _createRequest(params): the requests the method hands to the request builder
_createRequest(params) ==
    <<createRequest(host, objectSet(params, "apikey", token))>>

\* createRequest(params) of index.ts
ts_createRequest(params) ==
    <<createRequest(host, objectSet(params, "apikey", token))>>

\* what a method body does: the requests it hands to the request builder, and
\* whether it returns the promise of the request to its caller
Returning(requests) == [sent |-> requests, returns |-> "promise"]

NotReturning(requests) == [sent |-> requests, returns |-> "undefined"]

---------------------------------------------------------------------------
(* The methods of EtherscanApi.js: each maps its positional arguments to   *)
(* the requests it issues and to what it returns                           *)

getAccountBalance(args) ==
    LET address == Arg(args, 1)
        tag     == Default(Arg(args, 3), Str("latest"))
    IN  Returning(_createRequest(<<
            <<"module", Str(MODULES.ACCOUNT)>>,
            <<"action", Str(ACTIONS_JS.GET_BALANCE)>>,
            <<"tag", tag>>,
            <<"address", address>> >>))

getAccountBalances(args) ==
    LET addresses == Arg(args, 1)
        tag       == Default(Arg(args, 3), Str("latest"))
    IN  Returning(_createRequest(<<
            <<"apikey", token>>,
            <<"module", Str(MODULES.ACCOUNT)>>,
            <<"action", Str(ACTIONS_JS.GET_BALANCE_MULTI)>>,
            <<"address", Str(join([i \in 1..Len(addresses[2]) |-> addresses[2][i][2]], ","))>>,
            <<"tag", tag>> >>))

\* getTransactions giving sort a default: sort = 'asc'
getTransactions_defaultSort(args) ==
    LET address    == Arg(args, 1)
        startBlock == Arg(args, 2)
        endBlock   == Arg(args, 3)
        offset     == Arg(args, 4)
        page       == Arg(args, 5)
        sort       == Default(Arg(args, 6), Str("asc"))
    IN  Returning(_createRequest(<<
            <<"module", Str(MODULES.ACCOUNT)>>,
            <<"action", Str(ACTIONS_JS.GET_TRANSACTIONS_LIST)>>,
            <<"address", address>>,
            <<"endblock", endBlock>>,
            <<"startblock", startBlock>>,
            <<"offset", offset>>,
            <<"page", page>>,
            <<"sort", sort>> >>))

getTransactions(args) ==
    LET address    == Arg(args, 1)
        startBlock == Arg(args, 2)
        endBlock   == Arg(args, 3)
        offset     == Arg(args, 4)
        page       == Arg(args, 5)
        sort       == Arg(args, 6)
    IN  Returning(_createRequest(<<
            <<"module", Str(MODULES.ACCOUNT)>>,
            <<"action", Str(ACTIONS_JS.GET_TRANSACTIONS_LIST)>>,
            <<"address", address>>,
            <<"endblock", endBlock>>,
            <<"startblock", startBlock>>,
            <<"offset", offset>>,
            <<"page", page>>,
            <<"sort", sort>> >>))

getInternalTransactions(args) ==
    LET address    == Arg(args, 1)
        startBlock == Arg(args, 2)
        endBlock   == Arg(args, 3)
        offset     == Arg(args, 4)
        page       == Arg(args, 5)
        sort       == Arg(args, 6)
    IN  Returning(_createRequest(<<
            <<"module", Str(MODULES.ACCOUNT)>>,
            <<"action", Str(ACTIONS_JS.GET_TRANSACTIONS_LIST_INTERNAL)>>,
            <<"address", address>>,
            <<"endblock", endBlock>>,
            <<"startblock", startBlock>>,
            <<"offset", offset>>,
            <<"page", page>>,
            <<"sort", sort>> >>))

getInternalTransactionsByHash(args) ==
    LET txhash == Arg(args, 1)
    IN  Returning(_createRequest(<<
            <<"module", Str(MODULES.ACCOUNT)>>,
            <<"action", Str(ACTIONS_JS.GET_TRANSACTIONS_LIST_INTERNAL)>>,
            <<"txhash", txhash>> >>))

getMinedBlocks(args) ==
    LET address == Arg(args, 1)
        type    == Default(Arg(args, 2), Str("blocks"))
        offset  == Arg(args, 3)
        page    == Arg(args, 4)
    IN  Returning(_createRequest(<<
            <<"module", Str(MODULES.ACCOUNT)>>,
            <<"action", Str(ACTIONS_JS.GET_MINED_BLOCKS)>>,
            <<"blocktype", type>>,
            <<"address", address>>,
            <<"offset", offset>>,
            <<"page", page>> >>))

getContractAbi(args) ==
    LET address == Arg(args, 1)
    IN  Returning(_createRequest(<<
            <<"module", Str(MODULES.CONTRACT)>>,
            <<"action", Str(ACTIONS_JS.GET_ABI)>>,
            <<"address", address>> >>))

getContractExecutionStatus(args) ==
    LET txhash == Arg(args, 1)
    IN  Returning(_createRequest(<<
            <<"module", Str(MODULES.TRANSACTION)>>,
            <<"action", Str(ACTIONS_JS.GET_CONTRACT_STATUS)>>,
            <<"txhash", txhash>> >>))

getTransactionStatus(args) ==
    LET txhash == Arg(args, 1)
    IN  Returning(_createRequest(<<
            <<"module", Str(MODULES.TRANSACTION)>>,
            <<"action", Str(ACTIONS_JS.GET_TRANSACTION_STATUS)>>,
            <<"txhash", txhash>> >>))

getBlockReward(args) ==
    LET blockNumber == Arg(args, 1)
    IN  Returning(_createRequest(<<
            <<"module", Str(MODULES.BLOCK)>>,
            <<"action", Str(ACTIONS_JS.GET_BLOCK_REWARD)>>,
            <<"blockno", blockNumber>> >>))

getEventsLogs(args) ==
    LET address         == Arg(args, 1)
        fromBlock       == Arg(args, 2)
        toBlock         == Arg(args, 3)
        topic0          == Arg(args, 4)
        topic01operator == Arg(args, 5)
        topic1          == Arg(args, 6)
        topic12operator == Arg(args, 7)
        topic2          == Arg(args, 8)
        topic23operator == Arg(args, 9)
        topic3          == Arg(args, 10)
        topic02operator == Arg(args, 11)
    IN  Returning(_createRequest(<<
            <<"module", Str(MODULES.LOGS)>>,
            <<"action", Str(ACTIONS_JS.GET_LOGS)>>,
            <<"fromBlock", fromBlock>>,
            <<"toBlock", toBlock>>,
            <<"topic0", topic0>>,
            <<"topic0_1_opr", topic01operator>>,
            <<"topic1", topic1>>,
            <<"topic1_2_opr", topic12operator>>,
            <<"topic2", topic2>>,
            <<"topic2_3_opr", topic23operator>>,
            <<"topic3", topic3>>,
            <<"topic0_2_opr", topic02operator>> >>))

getRecentBlockNumber(args) ==
    Returning(_createRequest(<<
        <<"module", Str(MODULES.PROXY)>>,
        <<"action", Str(ACTIONS_JS.GET_RECENT_BLOCK_NUMBER)>> >>))

getBlockByNumber(args) ==
    LET blockNumber == Arg(args, 1)
    IN  Returning(_createRequest(<<
            <<"module", Str(MODULES.PROXY)>>,
            <<"action", Str(ACTIONS_JS.GET_BLOCK_BY_NUMBER)>>,
            <<"tag", Str("0x" \o numberToString(blockNumber[2], 16))>>,
            <<"boolean", Str("true")>> >>))

getUncleByBlockNumberAndIndex(args) ==
    LET blockNumber == Arg(args, 1)
        index       == Default(Arg(args, 2), Num(0))
    IN  Returning(_createRequest(<<
            <<"module", Str(MODULES.PROXY)>>,
            <<"action", Str(ACTIONS_JS.GET_UNCLE_BLOCK_NUMBER_AND_INDEX)>>,
            <<"tag", getHex(blockNumber)>>,
            <<"index", getHex(index)>> >>))

getBlockTransactionCount(args) ==
    LET blockNumber == Arg(args, 1)
    IN  Returning(_createRequest(<<
            <<"module", Str(MODULES.PROXY)>>,
            <<"action", Str(ACTIONS_JS.GET_BLOCK_TX_COUNT_BY_NUMBER)>>,
            <<"tag", getHex(blockNumber)>> >>))

getTransactionByHash(args) ==
    LET txhash == Arg(args, 1)
    IN  Returning(_createRequest(<<
            <<"module", Str(MODULES.PROXY)>>,
            <<"action", Str(ACTIONS_JS.GET_TRANSACTION_BY_HASH)>>,
            <<"txhash", txhash>> >>))

getTransactionByBlockNumberAndIndex(args) ==
    LET blockNumber == Arg(args, 1)
        index       == Default(Arg(args, 2), Num(0))
    IN  Returning(_createRequest(<<
            <<"module", Str(MODULES.PROXY)>>,
            <<"action", Str(ACTIONS_JS.GET_TX_BY_BLOCK_NUMBER_AND_INDEX)>>,
            <<"tag", getHex(blockNumber)>>,
            <<"index", getHex(index)>> >>))

getTransactionCount(args) ==
    LET address == Arg(args, 1)
        tag     == Default(Arg(args, 2), Str("latest"))
    IN  Returning(_createRequest(<<
            <<"module", Str(MODULES.PROXY)>>,
            <<"action", Str(ACTIONS_JS.GET_TRANSACTION_COUNT)>>,
            <<"tag", tag>>,
            <<"address", address>> >>))

sendRawTransaction(args) ==
    LET hex == Arg(args, 1)
    IN  NotReturning(_createRequest(<<
            <<"module", Str(MODULES.PROXY)>>,
            <<"action", Str(ACTIONS_JS.SEND_RAW_TRANSACTION)>>,
            <<"hex", hex>> >>))

getTransactionReceipt(args) ==
    LET txhash == Arg(args, 1)
    IN  Returning(_createRequest(<<
            <<"module", Str(MODULES.PROXY)>>,
            <<"action", Str(ACTIONS_JS.GET_TRANSACTION_RECEIPT)>>,
            <<"txhash", txhash>> >>))

call(args) ==
    LET to   == Arg(args, 1)
        data == Arg(args, 2)
        tag  == Default(Arg(args, 3), Str("latest"))
    IN  Returning(_createRequest(<<
            <<"module", Str(MODULES.PROXY)>>,
            <<"action", Str(ACTIONS_JS.CALL)>>,
            <<"tag", tag>>,
            <<"to", to>>,
            <<"data", data>> >>))

getCode(args) ==
    LET address == Arg(args, 1)
        tag     == Default(Arg(args, 2), Str("latest"))
    IN  Returning(_createRequest(<<
            <<"module", Str(MODULES.PROXY)>>,
            <<"action", Str(ACTIONS_JS.GET_CODE)>>,
            <<"address", address>>,
            <<"tag", tag>> >>))

getStorageAt(args) ==
    LET address  == Arg(args, 1)
        position == Arg(args, 2)
        tag      == Default(Arg(args, 3), Str("latest"))
    IN  Returning(_createRequest(<<
            <<"module", Str(MODULES.PROXY)>>,
            <<"action", Str(ACTIONS_JS.GET_STORAGE_AT)>>,
            <<"address", address>>,
            <<"position", getHex(position)>>,
            <<"tag", tag>> >>))

getGasPrice(args) ==
    Returning(_createRequest(<<
        <<"module", Str(MODULES.PROXY)>>,
        <<"action", Str(ACTIONS_JS.GET_GAS_PRICE)>> >>))

estimateGas(args) ==
    LET to       == Arg(args, 1)
        value    == Arg(args, 2)
        gasPrice == Arg(args, 3)
        gas      == Arg(args, 4)
    IN  NotReturning(_createRequest(<<
            <<"module", Str(MODULES.PROXY)>>,
            <<"action", Str(ACTIONS_JS.ESTIMATE_GAS)>>,
            <<"to", to>>,
            <<"value", value>>,
            <<"gasPrice", gasPrice>>,
            <<"gas", gas>> >>))

getTokenByContractAddress(args) ==
    LET contractAddress == Arg(args, 1)
    IN  Returning(_createRequest(<<
            <<"module", Str(MODULES.STATS)>>,
            <<"action", Str(ACTIONS_JS.GET_TOKEN_BY_CONTRACT)>>,
            <<"contractaddress", contractAddress>> >>))

getTokenBalanceByContractAddress(args) ==
    LET contractAddress == Arg(args, 1)
        address         == Arg(args, 2)
        tag             == Default(Arg(args, 3), Str("latest"))
    IN  Returning(_createRequest(<<
            <<"module", Str(MODULES.ACCOUNT)>>,
            <<"action", Str(ACTIONS_JS.GET_TOKEN_BALANCE_BY_CONTRACT)>>,
            <<"contractaddress", contractAddress>>,
            <<"address", address>>,
            <<"tag", tag>> >>))

getTotalEtherSupply(args) ==
    Returning(_createRequest(<<
        <<"module", Str(MODULES.STATS)>>,
        <<"action", Str(ACTIONS_JS.GET_TOTAL_ETHER_SUPPLY)>> >>))

getEtherLastPrice(args) ==
    Returning(_createRequest(<<
        <<"module", Str(MODULES.STATS)>>,
        <<"action", Str(ACTIONS_JS.GET_LAST_ETHER_PRICE)>> >>))

---------------------------------------------------------------------------
(* The methods of index.ts                                                 *)

ts_getAccountBalance(args) ==
    LET address == Arg(args, 1)
    IN  Returning(ts_createRequest(<<
            <<"module", Str(MODULES.ACCOUNT)>>,
            <<"action", Str(ACTIONS_TS.BALANCE)>>,
            <<"tag", Str("latest")>>,
            <<"address", address>> >>))

ts_getAccountBalances(args) ==
    LET addresses == Arg(args, 1)
    IN  Returning(ts_createRequest(<<
            <<"apikey", token>>,
            <<"module", Str(MODULES.ACCOUNT)>>,
            <<"action", Str(ACTIONS_TS.BALANCE_MULTI)>>,
            <<"tag", Str("latest")>>,
            <<"address", Str(join([i \in 1..Len(addresses[2]) |-> addresses[2][i][2]], ","))>> >>))

ts_getTransactions(args) ==
    LET address    == Arg(args, 1)
        startBlock == Arg(args, 2)
        endBlock   == Arg(args, 3)
        offset     == Arg(args, 4)
        page       == Arg(args, 5)
        sort       == Arg(args, 6)
    IN  Returning(ts_createRequest(<<
            <<"action", Str(MODULES.ACCOUNT)>>,
            <<"module", Str(ACTIONS_TS.TRANSACTIONS_LIST)>>,
            <<"address", address>>,
            <<"endblock", endBlock>>,
            <<"startblock", startBlock>>,
            <<"offset", offset>>,
            <<"page", page>>,
            <<"sort", sort>> >>))

ts_getInternalTransactions(args) ==
    LET address    == Arg(args, 1)
        startBlock == Arg(args, 2)
        endBlock   == Arg(args, 3)
        offset     == Arg(args, 4)
        page       == Arg(args, 5)
        sort       == Arg(args, 6)
    IN  Returning(ts_createRequest(<<
            <<"action", Str(MODULES.ACCOUNT)>>,
            <<"module", Str(ACTIONS_TS.TRANSACTIONS_LIST_INTERNAL)>>,
            <<"address", address>>,
            <<"endblock", endBlock>>,
            <<"startblock", startBlock>>,
            <<"offset", offset>>,
            <<"page", page>>,
            <<"sort", sort>> >>))

ts_getInternalTransactionsByHash(args) ==
    LET transactionHash == Arg(args, 1)
    IN  Returning(ts_createRequest(<<
            <<"action", Str(MODULES.ACCOUNT)>>,
            <<"module", Str(ACTIONS_TS.TRANSACTIONS_LIST_INTERNAL)>>,
            <<"txhash", transactionHash>> >>))

ts_getMinedBlock(args) ==
    LET address == Arg(args, 1)
        offset  == Arg(args, 2)
        page    == Arg(args, 3)
    IN  Returning(ts_createRequest(<<
            <<"action", Str(MODULES.ACCOUNT)>>,
            <<"module", Str(ACTIONS_TS.TRANSACTIONS_LIST_INTERNAL)>>,
            <<"address", address>>,
            <<"offset", offset>>,
            <<"page", page>> >>))

ts_getContractAbi(args) ==
    LET address == Arg(args, 1)
    IN  Returning(ts_createRequest(<<
            <<"module", Str(MODULES.CONTRACT)>>,
            <<"action", Str(ACTIONS_TS.GET_ABI)>>,
            <<"address", address>> >>))

ts_getContractExecutionStatus(args) ==
    LET txhash == Arg(args, 1)
    IN  Returning(ts_createRequest(<<
            <<"module", Str(MODULES.TRANSACTION)>>,
            <<"action", Str(ACTIONS_TS.GET_CONTRACT_STATUS)>>,
            <<"txhash", txhash>> >>))

ts_getTransactionStatus(args) ==
    LET txhash == Arg(args, 1)
    IN  Returning(ts_createRequest(<<
            <<"module", Str(MODULES.TRANSACTION)>>,
            <<"action", Str(ACTIONS_TS.GET_TRANSACTION_STATUS)>>,
            <<"txhash", txhash>> >>))

---------------------------------------------------------------------------
(* Post-processing: what a method does with the result of its request.     *)
(* A callback ends by returning a value or throwing; `converter` lists the *)
(* invocations <<value, from, to>> of etherConvert it made, in order.      *)

Callback(outcome, invocations) == [outcome |-> outcome, converter |-> invocations]

\* a method that returns the promise of the request as it is
passThrough(resp) == Callback(Return(resp), <<>>)

\* .then(resp => unit === 'wei' || !(unit in UNITS) ? resp : etherConvert(resp, 'wei', unit))
getAccountBalanceThen(args, resp) ==
    LET unit == Default(Arg(args, 2), Str("wei"))
    IN  IF unit = Str("wei") \/ ~In(unit[2], UNITS)
        THEN Callback(Return(resp), <<>>)
        ELSE Callback(etherConvert(resp, "wei", unit[2]), <<<<resp, "wei", unit[2]>>>>)

\* resp.map(item => ({account, balance: etherConvert(item.balance, 'wei', unit)})):
\* the first conversion that throws ends the map
mapBalances(items, unit) ==
    LET conv(i)  == etherConvert(items[i][2].balance, "wei", unit)
        throwing == {i \in 1..Len(items) : conv(i)[1] = "throw"}
        last     == IF throwing = {} THEN Len(items)
                    ELSE CHOOSE i \in throwing : \A j \in throwing : i <= j
        made     == [i \in 1..last |-> <<items[i][2].balance, "wei", unit>>]
    IN  IF throwing = {}
        THEN Callback(Return(Arr([i \in 1..Len(items) |->
                 Obj([account |-> items[i][2].account, balance |-> conv(i)[2]])])), made)
        ELSE Callback(conv(last), made)

getAccountBalancesThen(args, resp) ==
    LET unit == Default(Arg(args, 2), Str("wei"))
    IN  IF unit = Str("wei") \/ ~In(unit[2], UNITS)
        THEN Callback(Return(resp), <<>>)
        ELSE mapBalances(resp[2], unit[2])

\* .then(resp => JSON.parse(resp))
getContractAbiThen(args, resp) == Callback(JSONparse(resp[2]), <<>>)

\* .then(hex => parseInt(hex, 16)), of getRecentBlockNumber,
\* getBlockTransactionCount and getTransactionCount
parseIntThen(args, resp) == Callback(Return(parseInt16(resp[2])), <<>>)

\* the callback of getGasPrice
getGasPriceThen(args, priceHex) ==
    LET unit       == Default(Arg(args, 1), Str("wei"))
        priceFixed == Str(bigNumberToFixed(priceHex[2]))
    IN  IF unit = Str("wei")
        THEN Callback(Return(priceFixed), <<>>)
        ELSE Callback(etherConvert(priceFixed, "wei", unit[2]), <<<<priceFixed, "wei", unit[2]>>>>)

ts_getAccountBalanceThen(args, resp) ==
    LET unit == Default(Arg(args, 2), Str("wei"))
    IN  IF unit = Str("wei") \/ ~In(unit[2], UNITS)
        THEN Callback(Return(resp), <<>>)
        ELSE Callback(etherConvert(resp, "wei", unit[2]), <<<<resp, "wei", unit[2]>>>>)

ts_getAccountBalancesThen(args, resp) ==
    LET unit == Default(Arg(args, 2), Str("wei"))
    IN  IF unit = Str("wei") \/ ~In(unit[2], UNITS)
        THEN Callback(Return(resp), <<>>)
        ELSE mapBalances(resp[2], unit[2])

ts_getContractAbiThen(args, resp) == Callback(JSONparse(resp[2]), <<>>)

\* the post-processing of method op
thenCallback(op, args, resp) ==
    CASE op = "getAccountBalance"        -> getAccountBalanceThen(args, resp)
      [] op = "getAccountBalances"       -> getAccountBalancesThen(args, resp)
      [] op = "getContractAbi"           -> getContractAbiThen(args, resp)
      [] op = "getRecentBlockNumber"     -> parseIntThen(args, resp)
      [] op = "getBlockTransactionCount" -> parseIntThen(args, resp)
      [] op = "getTransactionCount"      -> parseIntThen(args, resp)
      [] op = "getGasPrice"              -> getGasPriceThen(args, resp)
      [] op = "ts_getAccountBalance"     -> ts_getAccountBalanceThen(args, resp)
      [] op = "ts_getAccountBalances"    -> ts_getAccountBalancesThen(args, resp)
      [] op = "ts_getContractAbi"        -> ts_getContractAbiThen(args, resp)
      [] OTHER                           -> passThrough(resp)

---------------------------------------------------------------------------
(* The callers' inputs                                                     *)

AddrA == Str("0xA")

AddrB == Str("0xB")

TxHash == Str("0xT")

\* the argument lists a caller passes when it gives only the first n of `full`
Prefixes(full, lengths) == {SubSeq(full, 1, n) : n \in lengths}

\* unit names callers pass: in the unit table, unknown, and inherited by every object
UnitNames == {"wei", "kwei", "ether", "foo", "constructor"}

AddressLists == {Arr(<<AddrA, AddrB>>), Arr(<<AddrB, AddrA>>)}

PagedArgs == <<AddrA, Num(1), Num(99), Num(10), Num(2), Str("asc")>>

getAccountBalanceArgs ==
    {<<AddrA>>, <<AddrA, Str("ether"), Str("pending")>>}
        \cup {<<AddrA, Str(u)>> : u \in UnitNames}

getAccountBalancesArgs ==
    {<<l>> : l \in AddressLists}
        \cup {<<l, Str(u)>> : l \in AddressLists, u \in UnitNames \ {"kwei"}}

getTransactionsArgs ==
    Prefixes(PagedArgs, 1..6) \cup {<<AddrB, Undefined, Undefined, Num(10)>>}

getInternalTransactionsArgs == Prefixes(PagedArgs, {1, 3, 6})

getInternalTransactionsByHashArgs == {<<TxHash>>}

getMinedBlocksArgs == Prefixes(<<AddrA, Str("uncles"), Num(10), Num(2)>>, {1, 2, 4})

getContractAbiArgs == {<<AddrA>>}

getContractExecutionStatusArgs == {<<TxHash>>}

getTransactionStatusArgs == {<<TxHash>>}

getBlockRewardArgs == {<<Num(255)>>}

getEventsLogsArgs ==
    UNION {Prefixes(<<a, Num(1), Str("latest"), Str("t0"), Str("and"), Str("t1"),
                      Str("or"), Str("t2"), Str("and"), Str("t3"), Str("or")>>,
                    {4, 6, 8, 11}) : a \in {AddrA, AddrB}}

getRecentBlockNumberArgs == {<<>>}

getBlockByNumberArgs == {<<Num(255)>>, <<Num(26)>>}

getUncleByBlockNumberAndIndexArgs == {<<Num(255)>>, <<Num(255), Num(1)>>}

getBlockTransactionCountArgs == {<<Num(255)>>}

getTransactionByHashArgs == {<<TxHash>>}

getTransactionByBlockNumberAndIndexArgs == {<<Num(255)>>, <<Num(255), Num(1)>>}

getTransactionCountArgs == {<<AddrA>>, <<AddrA, Str("pending")>>}

sendRawTransactionArgs == {<<Str("0xf86c")>>}

getTransactionReceiptArgs == {<<TxHash>>}

callArgs == {<<AddrA, Str("0xd")>>, <<AddrA, Str("0xd"), Str("pending")>>}

getCodeArgs == {<<AddrA>>, <<AddrA, Str("pending")>>}

getStorageAtArgs == {<<AddrA, Num(0)>>, <<AddrA, Num(26), Str("pending")>>}

getGasPriceArgs == {<<>>} \cup {<<Str(u)>> : u \in UnitNames}

estimateGasArgs == Prefixes(<<AddrA, Str("0xff"), Str("0x5"), Str("0xffff")>>, {1, 4})

getTokenByContractAddressArgs == {<<AddrA>>}

getTokenBalanceByContractAddressArgs == {<<AddrA, AddrB>>, <<AddrA, AddrB, Str("pending")>>}

getTotalEtherSupplyArgs == {<<>>}

getEtherLastPriceArgs == {<<>>}

ts_getAccountBalanceArgs == {<<AddrA>>} \cup {<<AddrA, Str(u)>> : u \in UnitNames}

ts_getMinedBlockArgs == Prefixes(<<AddrA, Num(10), Num(2)>>, {1, 3})

---------------------------------------------------------------------------
(* The remote API: what it may answer a request with                       *)

\* an envelope of status "0" is surfaced as an error carrying its message
RemoteErrors == {Err("NOTOK")}

BalanceResults == {Str("1500"), Str("2000000000000000000")}

BalanceListResults ==
    {Arr(<<Obj([account |-> Str("0xA"), balance |-> Str("1500")]),
           Obj([account |-> Str("0xB"), balance |-> Str("2000000000000000000")])>>),
     Arr(<<Obj([account |-> Str("0xB"), balance |-> Str("0")])>>)}

AbiResults == {Str("[{\"type\":\"function\"}]"), Str("Contract source code not verified")}

HexResults == {Str("0x1a"), Str("0xff")}

GasPriceResults == {Str("0x3b9aca00"), Str("0x5dc")}

OtherResults == {Str("result1"), Str("result2")}

\* the result fields a success envelope may carry for a request of method op
RemoteResults(op) ==
    CASE op \in {"getAccountBalance", "ts_getAccountBalance"}   -> BalanceResults
      [] op \in {"getAccountBalances", "ts_getAccountBalances"} -> BalanceListResults
      [] op \in {"getContractAbi", "ts_getContractAbi"}         -> AbiResults
      [] op \in {"getRecentBlockNumber", "getBlockTransactionCount",
                 "getTransactionCount"}                         -> HexResults
      [] op = "getGasPrice"                                     -> GasPriceResults
      [] OTHER                                                  -> OtherResults

---------------------------------------------------------------------------
(* States                                                                  *)

NoEvent ==
    [event |-> "none", call |-> 0, op |-> "", args |-> <<>>, returned |-> "",
     request |-> <<"none">>, promise |-> <<"none">>, converter |-> <<>>, sent |-> <<>>]

\* new EtherscanApi(...cargs) of the implementation
New(implementation, cargs) ==
    IF implementation = "js"
    THEN constructor(Arg(cargs, 1), Arg(cargs, 2))
    ELSE ts_constructor(Arg(cargs, 1), Arg(cargs, 2))

\* the clients whose calls are explored
Clients ==
    {<<"js", <<Str("tokenA"), Str("ropsten")>>>>,
     <<"js", <<>>>>,
     <<"ts", <<Str("tokenB"), Str("KOVAN")>>>>,
     <<"ts", <<Undefined, Str("nonexistent")>>>>}

Init ==
    \E c \in Clients :
        /\ impl = c[1]
        /\ ctorArgs = c[2]
        /\ token = New(c[1], c[2]).token
        /\ network = New(c[1], c[2]).network
        /\ host = New(c[1], c[2]).host
        /\ inflight = <<>>
        /\ ev = NoEvent
        /\ nCalls = 0
        /\ nRequests = 0

---------------------------------------------------------------------------
(* A facade call: the method runs to its end, the requests it issued are   *)
(* in flight, and the caller holds what the method returned                *)

\* a call whose parameter mapping is one object shared by all calls: building
\* the new request rewrites the requests still in flight
InvokeWithin_sharedParams(maxCalls, maxInFlight, op, args, body) ==
    /\ nCalls < maxCalls
    /\ Len(inflight) < maxInFlight
    /\ nCalls' = nCalls + 1
    /\ nRequests' = nRequests + Len(body.sent)
    /\ inflight' = [k \in 1..Len(inflight) |->
                        [inflight[k] EXCEPT !.request = body.sent[1]]] \o
          [i \in 1..Len(body.sent) |->
              [id |-> nRequests + i, call |-> nCalls + 1, op |-> op, args |-> args,
               returns |-> body.returns, request |-> body.sent[i]]]
    /\ ev' = [event |-> "returned", call |-> nCalls + 1, op |-> op, args |-> args,
              returned |-> body.returns,
              request |-> <<"pending">>,
              promise |-> IF body.returns = "promise" THEN <<"pending">> ELSE <<"none">>,
              converter |-> <<>>,
              sent |-> body.sent]
    /\ UNCHANGED clientState

\* a call made while fewer than maxCalls calls were made and fewer than
\* maxInFlight requests are in flight
InvokeWithin(maxCalls, maxInFlight, op, args, body) ==
    /\ nCalls < maxCalls
    /\ Len(inflight) < maxInFlight
    /\ nCalls' = nCalls + 1
    /\ nRequests' = nRequests + Len(body.sent)
    /\ inflight' = inflight \o
          [i \in 1..Len(body.sent) |->
              [id |-> nRequests + i, call |-> nCalls + 1, op |-> op, args |-> args,
               returns |-> body.returns, request |-> body.sent[i]]]
    /\ ev' = [event |-> "returned", call |-> nCalls + 1, op |-> op, args |-> args,
              returned |-> body.returns,
              request |-> <<"pending">>,
              promise |-> IF body.returns = "promise" THEN <<"pending">> ELSE <<"none">>,
              converter |-> <<>>,
              sent |-> body.sent]
    /\ UNCHANGED clientState

Invoke(op, args, body) == InvokeWithin(MaxCalls, MaxInFlight, op, args, body)

Call_getAccountBalance ==
    /\ impl = "js"
    /\ \E args \in getAccountBalanceArgs : Invoke("getAccountBalance", args, getAccountBalance(args))

Call_getAccountBalances ==
    /\ impl = "js"
    /\ \E args \in getAccountBalancesArgs : Invoke("getAccountBalances", args, getAccountBalances(args))

Call_getTransactions ==
    /\ impl = "js"
    /\ \E args \in getTransactionsArgs : Invoke("getTransactions", args, getTransactions(args))

Call_getInternalTransactions ==
    /\ impl = "js"
    /\ \E args \in getInternalTransactionsArgs : Invoke("getInternalTransactions", args, getInternalTransactions(args))

Call_getInternalTransactionsByHash ==
    /\ impl = "js"
    /\ \E args \in getInternalTransactionsByHashArgs : Invoke("getInternalTransactionsByHash", args, getInternalTransactionsByHash(args))

Call_getMinedBlocks ==
    /\ impl = "js"
    /\ \E args \in getMinedBlocksArgs : Invoke("getMinedBlocks", args, getMinedBlocks(args))

Call_getContractAbi ==
    /\ impl = "js"
    /\ \E args \in getContractAbiArgs : Invoke("getContractAbi", args, getContractAbi(args))

Call_getContractExecutionStatus ==
    /\ impl = "js"
    /\ \E args \in getContractExecutionStatusArgs : Invoke("getContractExecutionStatus", args, getContractExecutionStatus(args))

Call_getTransactionStatus ==
    /\ impl = "js"
    /\ \E args \in getTransactionStatusArgs : Invoke("getTransactionStatus", args, getTransactionStatus(args))

Call_getBlockReward ==
    /\ impl = "js"
    /\ \E args \in getBlockRewardArgs : Invoke("getBlockReward", args, getBlockReward(args))

Call_getEventsLogs ==
    /\ impl = "js"
    /\ \E args \in getEventsLogsArgs : Invoke("getEventsLogs", args, getEventsLogs(args))

Call_getRecentBlockNumber ==
    /\ impl = "js"
    /\ \E args \in getRecentBlockNumberArgs : Invoke("getRecentBlockNumber", args, getRecentBlockNumber(args))

Call_getBlockByNumber ==
    /\ impl = "js"
    /\ \E args \in getBlockByNumberArgs : Invoke("getBlockByNumber", args, getBlockByNumber(args))

Call_getUncleByBlockNumberAndIndex ==
    /\ impl = "js"
    /\ \E args \in getUncleByBlockNumberAndIndexArgs : Invoke("getUncleByBlockNumberAndIndex", args, getUncleByBlockNumberAndIndex(args))

Call_getBlockTransactionCount ==
    /\ impl = "js"
    /\ \E args \in getBlockTransactionCountArgs : Invoke("getBlockTransactionCount", args, getBlockTransactionCount(args))

Call_getTransactionByHash ==
    /\ impl = "js"
    /\ \E args \in getTransactionByHashArgs : Invoke("getTransactionByHash", args, getTransactionByHash(args))

Call_getTransactionByBlockNumberAndIndex ==
    /\ impl = "js"
    /\ \E args \in getTransactionByBlockNumberAndIndexArgs : Invoke("getTransactionByBlockNumberAndIndex", args, getTransactionByBlockNumberAndIndex(args))

Call_getTransactionCount ==
    /\ impl = "js"
    /\ \E args \in getTransactionCountArgs : Invoke("getTransactionCount", args, getTransactionCount(args))

Call_sendRawTransaction ==
    /\ impl = "js"
    /\ \E args \in sendRawTransactionArgs : Invoke("sendRawTransaction", args, sendRawTransaction(args))

Call_getTransactionReceipt ==
    /\ impl = "js"
    /\ \E args \in getTransactionReceiptArgs : Invoke("getTransactionReceipt", args, getTransactionReceipt(args))

Call_call ==
    /\ impl = "js"
    /\ \E args \in callArgs : Invoke("call", args, call(args))

Call_getCode ==
    /\ impl = "js"
    /\ \E args \in getCodeArgs : Invoke("getCode", args, getCode(args))

Call_getStorageAt ==
    /\ impl = "js"
    /\ \E args \in getStorageAtArgs : Invoke("getStorageAt", args, getStorageAt(args))

Call_getGasPrice ==
    /\ impl = "js"
    /\ \E args \in getGasPriceArgs : Invoke("getGasPrice", args, getGasPrice(args))

Call_estimateGas ==
    /\ impl = "js"
    /\ \E args \in estimateGasArgs : Invoke("estimateGas", args, estimateGas(args))

Call_getTokenByContractAddress ==
    /\ impl = "js"
    /\ \E args \in getTokenByContractAddressArgs : Invoke("getTokenByContractAddress", args, getTokenByContractAddress(args))

Call_getTokenBalanceByContractAddress ==
    /\ impl = "js"
    /\ \E args \in getTokenBalanceByContractAddressArgs : Invoke("getTokenBalanceByContractAddress", args, getTokenBalanceByContractAddress(args))

Call_getTotalEtherSupply ==
    /\ impl = "js"
    /\ \E args \in getTotalEtherSupplyArgs : Invoke("getTotalEtherSupply", args, getTotalEtherSupply(args))

Call_getEtherLastPrice ==
    /\ impl = "js"
    /\ \E args \in getEtherLastPriceArgs : Invoke("getEtherLastPrice", args, getEtherLastPrice(args))

Call_ts_getAccountBalance ==
    /\ impl = "ts"
    /\ \E args \in ts_getAccountBalanceArgs : Invoke("ts_getAccountBalance", args, ts_getAccountBalance(args))

Call_ts_getAccountBalances ==
    /\ impl = "ts"
    /\ \E args \in getAccountBalancesArgs : Invoke("ts_getAccountBalances", args, ts_getAccountBalances(args))

Call_ts_getTransactions ==
    /\ impl = "ts"
    /\ \E args \in getTransactionsArgs : Invoke("ts_getTransactions", args, ts_getTransactions(args))

Call_ts_getInternalTransactions ==
    /\ impl = "ts"
    /\ \E args \in getInternalTransactionsArgs : Invoke("ts_getInternalTransactions", args, ts_getInternalTransactions(args))

Call_ts_getInternalTransactionsByHash ==
    /\ impl = "ts"
    /\ \E args \in getInternalTransactionsByHashArgs : Invoke("ts_getInternalTransactionsByHash", args, ts_getInternalTransactionsByHash(args))

Call_ts_getMinedBlock ==
    /\ impl = "ts"
    /\ \E args \in ts_getMinedBlockArgs : Invoke("ts_getMinedBlock", args, ts_getMinedBlock(args))

Call_ts_getContractAbi ==
    /\ impl = "ts"
    /\ \E args \in getContractAbiArgs : Invoke("ts_getContractAbi", args, ts_getContractAbi(args))

Call_ts_getContractExecutionStatus ==
    /\ impl = "ts"
    /\ \E args \in getContractExecutionStatusArgs : Invoke("ts_getContractExecutionStatus", args, ts_getContractExecutionStatus(args))

Call_ts_getTransactionStatus ==
    /\ impl = "ts"
    /\ \E args \in getTransactionStatusArgs : Invoke("ts_getTransactionStatus", args, ts_getTransactionStatus(args))

---------------------------------------------------------------------------
(* The remote answers a request in flight; the promise of the request      *)
(* settles and the method's post-processing runs                           *)

RemoveAt(seq, i) == SubSeq(seq, 1, i - 1) \o SubSeq(seq, i + 1, Len(seq))

\* the state a promise takes from how the callback chained on it ended
settled(outcome) ==
    IF outcome[1] = "return" THEN <<"fulfilled", outcome[2]>> ELSE <<"rejected", outcome[2]>>

\* a success envelope: the promise of the request is fulfilled with its result
requestFulfilled ==
    \E i \in 1..Len(inflight) : \E result \in RemoteResults(inflight[i].op) :
        LET r  == inflight[i]
            cb == thenCallback(r.op, r.args, result)
        IN  /\ inflight' = RemoveAt(inflight, i)
            /\ ev' = [event |-> "settled", call |-> r.call, op |-> r.op, args |-> r.args,
                      returned |-> r.returns,
                      request |-> <<"fulfilled", result>>,
                      promise |-> IF r.returns = "promise" THEN settled(cb.outcome)
                                  ELSE <<"none">>,
                      converter |-> IF r.returns = "promise" THEN cb.converter ELSE <<>>,
                      sent |-> <<r.request>>]
            /\ UNCHANGED <<clientState, nCalls, nRequests>>

\* a failure envelope or a transport error: the promise of the request is rejected
requestRejected ==
    \E i \in 1..Len(inflight) : \E error \in RemoteErrors :
        LET r == inflight[i]
        IN  /\ inflight' = RemoveAt(inflight, i)
            /\ ev' = [event |-> "settled", call |-> r.call, op |-> r.op, args |-> r.args,
                      returned |-> r.returns,
                      request |-> <<"rejected", error>>,
                      promise |-> IF r.returns = "promise" THEN <<"rejected", error>>
                                  ELSE <<"none">>,
                      converter |-> <<>>,
                      sent |-> <<r.request>>]
            /\ UNCHANGED <<clientState, nCalls, nRequests>>

Next ==
    \/ Call_getAccountBalance
    \/ Call_getAccountBalances
    \/ Call_getTransactions
    \/ Call_getInternalTransactions
    \/ Call_getInternalTransactionsByHash
    \/ Call_getMinedBlocks
    \/ Call_getContractAbi
    \/ Call_getContractExecutionStatus
    \/ Call_getTransactionStatus
    \/ Call_getBlockReward
    \/ Call_getEventsLogs
    \/ Call_getRecentBlockNumber
    \/ Call_getBlockByNumber
    \/ Call_getUncleByBlockNumberAndIndex
    \/ Call_getBlockTransactionCount
    \/ Call_getTransactionByHash
    \/ Call_getTransactionByBlockNumberAndIndex
    \/ Call_getTransactionCount
    \/ Call_sendRawTransaction
    \/ Call_getTransactionReceipt
    \/ Call_call
    \/ Call_getCode
    \/ Call_getStorageAt
    \/ Call_getGasPrice
    \/ Call_estimateGas
    \/ Call_getTokenByContractAddress
    \/ Call_getTokenBalanceByContractAddress
    \/ Call_getTotalEtherSupply
    \/ Call_getEtherLastPrice
    \/ Call_ts_getAccountBalance
    \/ Call_ts_getAccountBalances
    \/ Call_ts_getTransactions
    \/ Call_ts_getInternalTransactions
    \/ Call_ts_getInternalTransactionsByHash
    \/ Call_ts_getMinedBlock
    \/ Call_ts_getContractAbi
    \/ Call_ts_getContractExecutionStatus
    \/ Call_ts_getTransactionStatus
    \/ requestFulfilled
    \/ requestRejected

Spec == Init /\ [][Next]_vars

---------------------------------------------------------------------------
(* Construction on its own: every way a caller may construct a client      *)

NetworkNames ==
    {"main", "MAIN", "Main", "ropsten", "ROPSTEN", "Ropsten", "kovan", "KOVAN",
     "rinkeby", "RINKEBY", "Rinkeby", "nonexistent", "", "mainnet", "goerli",
     "homestead", "constructor", "toString", "valueOf", "__proto__"}

TokenArgs == {Str("tokenA"), Str("")}

ConstructorArgs ==
    {<<>>} \cup {<<t>> : t \in TokenArgs}
           \cup {<<t, Str(n)>> : t \in TokenArgs \cup {Undefined}, n \in NetworkNames}

InitCtor ==
    /\ impl = "none"
    /\ ctorArgs = <<>>
    /\ token = Undefined
    /\ network = ""
    /\ host = ""
    /\ inflight = <<>>
    /\ ev = NoEvent
    /\ nCalls = 0
    /\ nRequests = 0

Construct ==
    /\ impl = "none"
    /\ \E implementation \in {"js", "ts"} : \E cargs \in ConstructorArgs :
          /\ impl' = implementation
          /\ ctorArgs' = cargs
          /\ token' = New(implementation, cargs).token
          /\ network' = New(implementation, cargs).network
          /\ host' = New(implementation, cargs).host
    /\ UNCHANGED <<inflight, ev, nCalls, nRequests>>

SpecCtor == InitCtor /\ [][Construct]_vars

---------------------------------------------------------------------------
(* Concurrent calls on one client: up to MaxConcurrent requests in flight, *)
(* completing in any order                                                 *)

\* the method a call names, applied to the call's arguments
method(op, args) ==
    CASE op = "getAccountBalance"                   -> getAccountBalance(args)
      [] op = "getAccountBalances"                  -> getAccountBalances(args)
      [] op = "getTransactions"                     -> getTransactions(args)
      [] op = "getInternalTransactions"             -> getInternalTransactions(args)
      [] op = "getInternalTransactionsByHash"       -> getInternalTransactionsByHash(args)
      [] op = "getMinedBlocks"                      -> getMinedBlocks(args)
      [] op = "getContractAbi"                      -> getContractAbi(args)
      [] op = "getContractExecutionStatus"          -> getContractExecutionStatus(args)
      [] op = "getTransactionStatus"                -> getTransactionStatus(args)
      [] op = "getBlockReward"                      -> getBlockReward(args)
      [] op = "getEventsLogs"                       -> getEventsLogs(args)
      [] op = "getRecentBlockNumber"                -> getRecentBlockNumber(args)
      [] op = "getBlockByNumber"                    -> getBlockByNumber(args)
      [] op = "getUncleByBlockNumberAndIndex"       -> getUncleByBlockNumberAndIndex(args)
      [] op = "getBlockTransactionCount"            -> getBlockTransactionCount(args)
      [] op = "getTransactionByHash"                -> getTransactionByHash(args)
      [] op = "getTransactionByBlockNumberAndIndex" -> getTransactionByBlockNumberAndIndex(args)
      [] op = "getTransactionCount"                 -> getTransactionCount(args)
      [] op = "sendRawTransaction"                  -> sendRawTransaction(args)
      [] op = "getTransactionReceipt"               -> getTransactionReceipt(args)
      [] op = "call"                                -> call(args)
      [] op = "getCode"                             -> getCode(args)
      [] op = "getStorageAt"                        -> getStorageAt(args)
      [] op = "getGasPrice"                         -> getGasPrice(args)
      [] op = "estimateGas"                         -> estimateGas(args)
      [] op = "getTokenByContractAddress"           -> getTokenByContractAddress(args)
      [] op = "getTokenBalanceByContractAddress"    -> getTokenBalanceByContractAddress(args)
      [] op = "getTotalEtherSupply"                 -> getTotalEtherSupply(args)
      [] op = "getEtherLastPrice"                   -> getEtherLastPrice(args)
      [] op = "ts_getAccountBalance"                -> ts_getAccountBalance(args)
      [] op = "ts_getAccountBalances"               -> ts_getAccountBalances(args)
      [] op = "ts_getTransactions"                  -> ts_getTransactions(args)
      [] op = "ts_getInternalTransactions"          -> ts_getInternalTransactions(args)
      [] op = "ts_getInternalTransactionsByHash"    -> ts_getInternalTransactionsByHash(args)
      [] op = "ts_getMinedBlock"                    -> ts_getMinedBlock(args)
      [] op = "ts_getContractAbi"                   -> ts_getContractAbi(args)
      [] op = "ts_getContractExecutionStatus"       -> ts_getContractExecutionStatus(args)
      [] op = "ts_getTransactionStatus"             -> ts_getTransactionStatus(args)

\* the argument lists of the calls made concurrently
ConcurrentBalanceArgs == {<<AddrA>>, <<AddrB, Str("ether")>>}

ConcurrentBalancesArgs ==
    {<<Arr(<<AddrA, AddrB>>)>>, <<Arr(<<AddrB, AddrA>>), Str("ether")>>}

InvokeConcurrently(op, args) ==
    InvokeWithin(MaxConcurrentCalls, MaxConcurrent, op, args, method(op, args))

Concurrent_getAccountBalance ==
    /\ impl = "js"
    /\ \E args \in ConcurrentBalanceArgs : InvokeConcurrently("getAccountBalance", args)

Concurrent_getAccountBalances ==
    /\ impl = "js"
    /\ \E args \in ConcurrentBalancesArgs : InvokeConcurrently("getAccountBalances", args)

Concurrent_sendRawTransaction ==
    /\ impl = "js"
    /\ \E args \in sendRawTransactionArgs : InvokeConcurrently("sendRawTransaction", args)

Concurrent_ts_getAccountBalance ==
    /\ impl = "ts"
    /\ \E args \in ConcurrentBalanceArgs : InvokeConcurrently("ts_getAccountBalance", args)

NextConcurrent ==
    \/ Concurrent_getAccountBalance
    \/ Concurrent_getAccountBalances
    \/ Concurrent_sendRawTransaction
    \/ Concurrent_ts_getAccountBalance
    \/ requestFulfilled
    \/ requestRejected

SpecConcurrent == Init /\ [][NextConcurrent]_vars

---------------------------------------------------------------------------
(* Properties                                                              *)

Settled(ops) == ev.event = "settled" /\ ev.op \in ops

Fulfilled(ops) == Settled(ops) /\ ev.request[1] = "fulfilled"

queryKeys(request) == {request.query[i][1] : i \in 1..Len(request.query)}

queryEntries(request) == {request.query[i] : i \in 1..Len(request.query)}

\* C1: when the request a method issued is rejected, the caller holds a promise
\* rejected with that error: never a plain return value, never a dropped rejection.
C1_RejectionSurfaced ==
    (ev.event = "settled" /\ ev.request[1] = "rejected")
        => /\ ev.returned = "promise"
           /\ ev.promise = <<"rejected", ev.request[2]>>

\* C2: when the request of sendRawTransaction or estimateGas succeeds with result
\* R, the caller receives R from the value the method returned.
C2_ResultReturned ==
    Fulfilled({"sendRawTransaction", "estimateGas"})
        => /\ ev.returned = "promise"
           /\ ev.promise = <<"fulfilled", ev.request[2]>>

\* C3: the host is the network table's entry for the upper-cased network name
\* when that is a key of the table, and the main-network host otherwise and when
\* no name is given; so it is always one of the table's hosts.
C3_NetworkResolution ==
    impl # "none" =>
        LET networkName == Arg(ctorArgs, 2)
        IN  /\ host \in {NETWORKS[k] : k \in DOMAIN NETWORKS}
            /\ IsUndefined(networkName) => host = NETWORKS.MAIN
            /\ ~IsUndefined(networkName) =>
                  host = IF toUpperCase(networkName[2]) \in DOMAIN NETWORKS
                         THEN NETWORKS[toUpperCase(networkName[2])]
                         ELSE NETWORKS.MAIN
            /\ networkName \in {Str("ROPSTEN"), Str("ropsten")} =>
                  host = "https://api-ropsten.etherscan.io/api"
            /\ networkName = Str("nonexistent") => host = "https://api.etherscan.io/api"

\* C3 witness: a client constructed with the lower-case name "ropsten" has the Ropsten host
C3_Witness ==
    /\ impl = "js"
    /\ Arg(ctorArgs, 2) = Str("ropsten")
    /\ host = NETWORKS.ROPSTEN

\* C4: getAccountBalance returns the wei amount W unchanged, without invoking the
\* converter, when the unit is 'wei' or no name of the unit table; otherwise it
\* returns W scaled by 10^(exponent[wei] - exponent[unit]).
C4_BalancePostProcessing ==
    Fulfilled({"getAccountBalance", "ts_getAccountBalance"}) =>
        LET W    == ev.request[2]
            unit == Default(Arg(ev.args, 2), Str("wei"))
        IN  IF unit = Str("wei") \/ unit[2] \notin DOMAIN UNITS
            THEN /\ ev.promise = <<"fulfilled", W>>
                 /\ ev.converter = <<>>
            ELSE /\ ev.promise = <<"fulfilled",
                        Str(scaleByPowerOfTen(W[2], UNITS["wei"] - UNITS[unit[2]]))>>
                 /\ (W = Str("2000000000000000000") /\ unit = Str("ether"))
                        => ev.promise = <<"fulfilled", Str("2")>>

\* C5: getAccountBalances asks for the addresses joined by ',' in input order, and
\* returns a list of the remote list's length with the same account at each
\* position; each balance is unconverted when the unit is 'wei' or unrecognized,
\* and converted from wei to the unit otherwise.
C5_BalancesOrdering ==
    Fulfilled({"getAccountBalances", "ts_getAccountBalances"}) =>
        LET items     == ev.request[2][2]
            addresses == Arg(ev.args, 1)[2]
            unit      == Default(Arg(ev.args, 2), Str("wei"))
            asked     == objectGet(ev.sent[1].params, "address")
            expected(i) ==
                IF unit = Str("wei") \/ unit[2] \notin DOMAIN UNITS
                THEN items[i][2].balance
                ELSE Str(scaleByPowerOfTen(items[i][2].balance[2],
                                           UNITS["wei"] - UNITS[unit[2]]))
        IN  /\ asked = Str(join([i \in 1..Len(addresses) |-> addresses[i][2]], ","))
            /\ asked \in {Str("0xA,0xB"), Str("0xB,0xA")}
            /\ ev.promise[1] = "fulfilled"
            /\ ev.promise[2][1] = "array"
            /\ Len(ev.promise[2][2]) = Len(items)
            /\ \A i \in 1..Len(items) :
                  /\ ev.promise[2][2][i][2].account = items[i][2].account
                  /\ ev.promise[2][2][i][2].balance = expected(i)

\* C6: one request is handed to the request builder per facade call: after n
\* calls, n requests; no call has two requests in flight, and a call whose
\* request has settled has none left (no retry).
C6_OneRequestPerCall ==
    /\ nRequests = nCalls
    /\ \A i, j \in 1..Len(inflight) : i # j => inflight[i].call # inflight[j].call
    /\ ev.event \in {"returned", "settled"} => Len(ev.sent) = 1
    /\ ev.event = "settled" => \A i \in 1..Len(inflight) : inflight[i].call # ev.call

\* C6 witness: two calls made, two requests issued, the second call's request failed
C6_Witness ==
    /\ nCalls = 2
    /\ nRequests = 2
    /\ ev.event = "settled"
    /\ ev.call = 2
    /\ ev.request[1] = "rejected"

\* the query key each positional parameter of a method is sent under ("": none)
ParameterKeys(op) ==
    CASE op \in {"getAccountBalance", "getAccountBalances"} -> <<"address", "", "tag">>
      [] op \in {"ts_getAccountBalance", "ts_getAccountBalances"} -> <<"address", "">>
      [] op \in {"getTransactions", "getInternalTransactions",
                 "ts_getTransactions", "ts_getInternalTransactions"} ->
            <<"address", "startblock", "endblock", "offset", "page", "sort">>
      [] op \in {"getInternalTransactionsByHash", "ts_getInternalTransactionsByHash",
                 "getContractExecutionStatus", "ts_getContractExecutionStatus",
                 "getTransactionStatus", "ts_getTransactionStatus",
                 "getTransactionByHash", "getTransactionReceipt"} -> <<"txhash">>
      [] op = "getMinedBlocks" -> <<"address", "blocktype", "offset", "page">>
      [] op = "ts_getMinedBlock" -> <<"address", "offset", "page">>
      [] op \in {"getContractAbi", "ts_getContractAbi"} -> <<"address">>
      [] op = "getBlockReward" -> <<"blockno">>
      [] op = "getEventsLogs" ->
            <<"address", "fromBlock", "toBlock", "topic0", "topic0_1_opr", "topic1",
              "topic1_2_opr", "topic2", "topic2_3_opr", "topic3", "topic0_2_opr">>
      [] op \in {"getBlockByNumber", "getBlockTransactionCount"} -> <<"tag">>
      [] op \in {"getUncleByBlockNumberAndIndex",
                 "getTransactionByBlockNumberAndIndex"} -> <<"tag", "index">>
      [] op \in {"getTransactionCount", "getCode"} -> <<"address", "tag">>
      [] op = "sendRawTransaction" -> <<"hex">>
      [] op = "call" -> <<"to", "data", "tag">>
      [] op = "getStorageAt" -> <<"address", "position", "tag">>
      [] op = "getGasPrice" -> <<"">>
      [] op = "estimateGas" -> <<"to", "value", "gasPrice", "gas">>
      [] op = "getTokenByContractAddress" -> <<"contractaddress">>
      [] op = "getTokenBalanceByContractAddress" -> <<"contractaddress", "address", "tag">>
      [] OTHER -> <<>>

\* the text sent for a positional parameter the caller omits, for the parameters
\* that declare a default ("": the parameter declares none)
ParameterDefaults(op) ==
    CASE op \in {"getAccountBalance", "getAccountBalances", "call", "getStorageAt",
                 "getTokenBalanceByContractAddress"} -> <<"", "", "latest">>
      [] op \in {"getTransactionCount", "getCode"} -> <<"", "latest">>
      [] op = "getMinedBlocks" -> <<"", "blocks", "", "">>
      [] op \in {"getUncleByBlockNumberAndIndex",
                 "getTransactionByBlockNumberAndIndex"} -> <<"", "0x0">>
      [] OTHER -> [i \in 1..Len(ParameterKeys(op)) |-> ""]

definedKeys(params) ==
    {params[i][1] : i \in {j \in 1..Len(params) : ~IsUndefined(params[j][2])}}

\* C7 as stated: the query string holds exactly the keys whose values are defined,
\* no key for an argument the caller omitted, and never the text "undefined".
C7_OmittedNeverSerialized ==
    ev.event = "returned" =>
        LET request == ev.sent[1]
            keys    == ParameterKeys(ev.op)
        IN  /\ queryKeys(request) = definedKeys(request.params)
            /\ \A i \in 1..Len(keys) :
                  (keys[i] # "" /\ IsUndefined(Arg(ev.args, i)))
                      => keys[i] \notin queryKeys(request)
            /\ \A e \in queryEntries(request) : e[2] # "undefined"

\* C7 amended: the query string holds exactly the keys whose values are defined
\* and never the text "undefined"; it holds no key for an omitted argument whose
\* parameter declares no default, and the default under its key otherwise.
C7_OmittedWithoutDefaultNeverSerialized ==
    ev.event = "returned" =>
        LET request  == ev.sent[1]
            keys     == ParameterKeys(ev.op)
            defaults == ParameterDefaults(ev.op)
        IN  /\ queryKeys(request) = definedKeys(request.params)
            /\ \A i \in 1..Len(keys) :
                  (keys[i] # "" /\ IsUndefined(Arg(ev.args, i)))
                      => IF defaults[i] = ""
                         THEN keys[i] \notin queryKeys(request)
                         ELSE <<keys[i], defaults[i]>> \in queryEntries(request)
            /\ \A e \in queryEntries(request) : e[2] # "undefined"

\* C7 witness: getTransactions with only an address sends no paging or sort key
C7_Witness ==
    /\ ev.event = "returned"
    /\ ev.op = "getTransactions"
    /\ ev.args = <<AddrA>>
    /\ queryKeys(ev.sent[1]) = {"module", "action", "address", "apikey"}

\* C8: the parameter mapping handed to the request builder has the token given at
\* construction under 'apikey', whatever the method's own mapping holds there.
C8_ApikeyIsToken ==
    /\ impl # "none" =>
          token = Default(Arg(ctorArgs, 1),
                          IF impl = "js" THEN Str("") ELSE Str("YourApiKeyToken"))
    /\ \A i \in 1..Len(ev.sent) :
          /\ objectGet(ev.sent[i].params, "apikey") = token
          /\ Cardinality({j \in 1..Len(ev.sent[i].params) :
                             ev.sent[i].params[j][1] = "apikey"}) = 1
          /\ <<"apikey", toText(token)>> \in queryEntries(ev.sent[i])
    /\ \A i \in 1..Len(inflight) : objectGet(inflight[i].request.params, "apikey") = token
    /\ \A v \in {Str("other"), Undefined} :
          LET own   == <<<<"apikey", v>>, <<"module", Str("account")>>>>
              built == IF impl = "ts" THEN ts_createRequest(own) ELSE _createRequest(own)
          IN  \A i \in 1..Len(built) : objectGet(built[i].params, "apikey") = token

\* C8 witness: getAccountBalances, whose own mapping names apikey, sent the token
C8_Witness ==
    /\ ev.event = "returned"
    /\ ev.op = "getAccountBalances"
    /\ token = Str("tokenA")
    /\ objectGet(ev.sent[1].params, "apikey") = Str("tokenA")

\* C9: getGasPrice returns the price unchanged, without invoking the converter,
\* for a unit that is no name of the unit table; the price as a plain decimal
\* string for 'wei'; and the price converted from wei for any other unit.
C9_GasPriceUnits ==
    Fulfilled({"getGasPrice"}) =>
        LET unit  == Default(Arg(ev.args, 1), Str("wei"))
            price == Str(bigNumberToFixed(ev.request[2][2]))
        IN  IF unit[2] \notin DOMAIN UNITS
            THEN /\ ev.converter = <<>>
                 /\ ev.promise \in {<<"fulfilled", price>>, <<"fulfilled", ev.request[2]>>}
            ELSE IF unit = Str("wei")
            THEN /\ ev.promise = <<"fulfilled", price>>
                 /\ ev.converter = <<>>
            ELSE ev.promise = <<"fulfilled",
                     Str(scaleByPowerOfTen(price[2], UNITS["wei"] - UNITS[unit[2]]))>>

\* C10: getEventsLogs sends the address it is given, under the key 'address'.
C10_EventsLogsForwardsAddress ==
    (ev.event = "returned" /\ ev.op = "getEventsLogs")
        => /\ objectGet(ev.sent[1].params, "address") = Arg(ev.args, 1)
           /\ <<"address", toText(Arg(ev.args, 1))>> \in queryEntries(ev.sent[1])

\* the values of the module constants, and of the action constants of either file
ModuleValues == {Str(MODULES[k]) : k \in DOMAIN MODULES}

ActionValues ==
    {Str(ACTIONS_JS[k]) : k \in DOMAIN ACTIONS_JS}
        \cup {Str(ACTIONS_TS[k]) : k \in DOMAIN ACTIONS_TS}

\* the operation of EtherscanApi.js that an operation of index.ts also provides
CounterpartModule(op) ==
    CASE op = "ts_getTransactions" ->
            objectGet(getTransactions(ev.args).sent[1].params, "module")
      [] op = "ts_getInternalTransactions" ->
            objectGet(getInternalTransactions(ev.args).sent[1].params, "module")
      [] op = "ts_getInternalTransactionsByHash" ->
            objectGet(getInternalTransactionsByHash(ev.args).sent[1].params, "module")
      [] op = "ts_getMinedBlock" ->
            objectGet(getMinedBlocks(ev.args).sent[1].params, "module")
      [] OTHER -> objectGet(ev.sent[1].params, "module")

\* C11: every request names a module constant under 'module' and an action
\* constant under 'action', in both implementations; an operation both provide
\* (getTransactions, getInternalTransactions, getInternalTransactionsByHash,
\* mined blocks) has the same module under 'module' in both.
C11_ModuleActionKeys ==
    ev.event = "returned" =>
        LET params == ev.sent[1].params
        IN  /\ objectGet(params, "module") \in ModuleValues
            /\ objectGet(params, "action") \in ActionValues
            /\ <<"module", toText(objectGet(params, "module"))>> \in queryEntries(ev.sent[1])
            /\ objectGet(params, "module") = CounterpartModule(ev.op)

\* what the promise a call returned settles to, from the outcome of the call's
\* own request and the call's own arguments
ownOutcome(op, args, request) ==
    IF request[1] = "fulfilled"
    THEN settled(thenCallback(op, args, request[2]).outcome)
    ELSE <<"rejected", request[2]>>

\* the fields of the client are those the constructor set
ClientUnchanged ==
    /\ token = New(impl, ctorArgs).token
    /\ network = New(impl, ctorArgs).network
    /\ host = New(impl, ctorArgs).host

\* every request in flight, and the request of the latest event, is the one its
\* own call's method builds from that call's arguments and the client's host and token
OwnRequests ==
    /\ \A i \in 1..Len(inflight) :
          /\ inflight[i].request = method(inflight[i].op, inflight[i].args).sent[1]
          /\ inflight[i].request.host = host
          /\ objectGet(inflight[i].request.params, "apikey") = token
    /\ ev.event \in {"returned", "settled"} =>
          /\ ev.sent = method(ev.op, ev.args).sent
          /\ ev.sent[1].host = host

===========================================================================
